---- MODULE Spec2Model ----
(***************************************************************************)
(* A model of calculator.py: the tokenizer (tokenize_expression), the      *)
(* operator-precedence parser (build_syntax_tree), the tree evaluator      *)
(* (evaluate_expression_tree) and the two drivers (run_test_cases,         *)
(* run_interactive_mode).                                                  *)
(*                                                                         *)
(* Strings that the code scans character by character are sequences of     *)
(* one-character strings.  A token is the pair <<type, value>>.  A raised  *)
(* Python exception is a record [exc |-> class, arg |-> argument].         *)
(***************************************************************************)
EXTENDS Integers, Sequences, FiniteSets, TLC

VARIABLES
    expression,             \* tokenize_expression: the argument `expression`
    position,               \* tokenize_expression: position
    tokens,                 \* the token list: built by tokenize_expression,
                            \* read by build_syntax_tree
    index,                  \* number of tokens the for loop has consumed
    output_stack,           \* build_syntax_tree: output_stack
    operator_stack,         \* build_syntax_tree: operator_stack
    previous_token_type,    \* build_syntax_tree: previous_token_type
    previous_token_value,   \* build_syntax_tree: previous_token_value
    pc,                     \* where the call stands: "lex", "lexed", "scan",
                            \* "built", "evaluated" or "raised"; where a
                            \* driver stands: "for", "returned", "prompt",
                            \* "exited" or "traceback"
    raised,                 \* the exception that ended the call, or None
    tree,                   \* the node build_syntax_tree returned
    result,                 \* the value calculate_expression returned
    globals,                \* the module globals `operations`, `functions`
    stdin,                  \* the lines input() has still to return
    stdout,                 \* what the drivers printed
    test_cases              \* run_test_cases: the list test_expressions and
                            \* the position of its for loop

vars == <<expression, position, tokens, index, output_stack, operator_stack, previous_token_type,
          previous_token_value, pc, raised, tree, result, globals,
          stdin, stdout,
          test_cases>>

-----------------------------------------------------------------------------
(* Bounds of the model.                                                    *)

\* Longest token sequence that is enumerated exhaustively.
MaxLen == 4

\* Longest character string that is enumerated exhaustively.
MaxChars == 4

\* Most lines that standard input holds before its end.
MaxLines == 2

\* Most lines the interactive loop prints before the model stops following it.
MaxPrinted == 4

\* Largest numerator and denominator of a float the model keeps exactly.
MaxNum == 4096

\* Largest integer part of a number literal that float() is modelled for.
MaxLiteral == 99

-----------------------------------------------------------------------------
(* Python values.                                                          *)

\* None where the code holds an object, and where it holds a string.
None == [type |-> "None"]
NoneStr == "<None>"

Exception(class, argument) == [exc |-> class, arg |-> argument]

UnbalancedParentheses == Exception("ValueError", "unbalanced parentheses")
TreeBuildError == Exception("ValueError", "tree construction error")
PopFromEmptyList == Exception("IndexError", "pop from empty list")

\* The iterator of a for loop over a list: the list and the position of the
\* item it takes next.
ListIterator(list) == [list |-> list, next |-> 1]

Top(stack) == stack[Len(stack)]
Pop(stack) == SubSeq(stack, 1, Len(stack) - 1)

-----------------------------------------------------------------------------
(* Symbol tables.                                                          *)

\* A table maps a symbol to its behaviour, named by the Python expression
\* that computes it.
create_constants_map == "pi" :> "math.pi" @@ "e" :> "math.e"

create_operations_map ==
    "+" :> "a + b" @@ "-" :> "a - b" @@ "*" :> "a * b"
    @@ "/" :> "a / b if b != 0 else float('inf')" @@ "^" :> "a ** b"

create_functions_map ==
    "sin" :> "math.sin" @@ "cos" :> "math.cos" @@ "tan" :> "math.tan"
    @@ "sqrt" :> "math.sqrt(x) if x >= 0 else float('nan')"
    @@ "log" :> "math.log" @@ "exp" :> "math.exp" @@ "abs" :> "abs"

\* The tables __main__ builds and passes to every call.
constants == create_constants_map
operations == create_operations_map
functions == create_functions_map

FunctionNames == DOMAIN functions

precedence_flat == "+" :> 1 @@ "-" :> 1 @@ "*" :> 1 @@ "/" :> 1 @@ "^" :> 1
                   @@ "u-" :> 1 @@ "u+" :> 1

\* A table that ranks the signs between * / and ^.
precedence_sign_below_power ==
    "+" :> 1 @@ "-" :> 1 @@ "*" :> 2 @@ "/" :> 2 @@ "u-" :> 3 @@ "u+" :> 3
    @@ "^" :> 4

precedence == "+" :> 1 @@ "-" :> 1 @@ "*" :> 2 @@ "/" :> 2 @@ "^" :> 3
              @@ "u-" :> 4 @@ "u+" :> 4

right_associative_none == {}

right_associative == {"^", "u-", "u+"}

-----------------------------------------------------------------------------
(* Nodes.                                                                  *)

Node(node_type, value, left, right) ==
    [type |-> node_type, value |-> value, left |-> left, right |-> right]

\* A binary node with its operands exchanged.
create_operator_node_swapped(operator, left, right) ==
    Node("OPERATOR", operator, right, left)

create_operator_node(operator, left, right) ==
    Node("OPERATOR", operator, left, right)

create_function_node(func_name, argument) ==
    Node("FUNCTION", func_name, argument, None)

create_unary_node(operator, argument) ==
    Node("UNARY", operator, argument, None)

-----------------------------------------------------------------------------
(* The parser.  Its working state is the record                            *)
(*   [operator_stack, output_stack, raised]                                *)
(* where raised is None or the exception that ended the call.              *)

ParserState(ops, out) ==
    [operator_stack |-> ops, output_stack |-> out, raised |-> None]

Raise(st, exception) == [st EXCEPT !.raised = exception]

should_be_unary_not_after_operator(cur_type, cur_value, prev_type, prev_value) ==
    IF prev_type = NoneStr
    THEN cur_type = "OPERATOR" /\ cur_value \in {"", "+", "-", "+-"}
    ELSE IF prev_type = "PAREN" /\ prev_value = "("
    THEN cur_type = "OPERATOR" /\ cur_value \in {"", "+", "-", "+-"}
    ELSE FALSE

\* `value in '+-'` is a substring test: it holds of "", "+", "-" and "+-".
should_be_unary(cur_type, cur_value, prev_type, prev_value) ==
    IF prev_type = NoneStr
    THEN cur_type = "OPERATOR" /\ cur_value \in {"", "+", "-", "+-"}
    ELSE IF prev_type = "PAREN" /\ prev_value = "("
    THEN cur_type = "OPERATOR" /\ cur_value \in {"", "+", "-", "+-"}
    ELSE IF prev_type = "OPERATOR"
    THEN cur_type = "OPERATOR" /\ cur_value \in {"", "+", "-", "+-"}
    ELSE FALSE

process_unary_operator(token_value) ==
    IF token_value = "-" THEN "u-" ELSE "u+"

can_pop_operator(current_operator, ops) ==
    IF ops = <<>> THEN FALSE
    ELSE LET top_operator == Top(ops) IN
         IF top_operator = "(" THEN FALSE
         ELSE IF top_operator \notin DOMAIN precedence THEN FALSE
         ELSE IF precedence[top_operator] > precedence[current_operator]
         THEN TRUE
         ELSE IF precedence[top_operator] = precedence[current_operator]
         THEN current_operator \notin right_associative
         ELSE FALSE

\* A reduction without the branch for the unary symbols: whatever is not a
\* function name makes a binary node.
pop_operator_and_create_node_all_binary(st) ==
    LET operator == Top(st.operator_stack)
        ops == Pop(st.operator_stack)
        out == st.output_stack
    IN  IF operator \in FunctionNames
        THEN IF out = <<>>
             THEN Raise(ParserState(ops, out), PopFromEmptyList)
             ELSE ParserState(ops,
                    Append(Pop(out), create_function_node(operator, Top(out))))
        ELSE IF out = <<>>
        THEN Raise(ParserState(ops, out), PopFromEmptyList)
        ELSE IF Len(out) = 1
        THEN Raise(ParserState(ops, Pop(out)), PopFromEmptyList)
        ELSE ParserState(ops,
               Append(Pop(Pop(out)),
                      create_operator_node(operator, Top(Pop(out)), Top(out))))

\* Requires a non-empty operator stack, as at each of its three call sites.
pop_operator_and_create_node(st) ==
    LET operator == Top(st.operator_stack)
        ops == Pop(st.operator_stack)
        out == st.output_stack
    IN  IF operator \in FunctionNames
        THEN IF out = <<>>
             THEN Raise(ParserState(ops, out), PopFromEmptyList)
             ELSE ParserState(ops,
                    Append(Pop(out), create_function_node(operator, Top(out))))
        ELSE IF operator \in {"u-", "u+"}
        THEN IF out = <<>>
             THEN Raise(ParserState(ops, out), PopFromEmptyList)
             ELSE ParserState(ops,
                    Append(Pop(out), create_unary_node(operator, Top(out))))
        ELSE IF out = <<>>
        THEN Raise(ParserState(ops, out), PopFromEmptyList)
        ELSE IF Len(out) = 1
        THEN Raise(ParserState(ops, Pop(out)), PopFromEmptyList)
        ELSE ParserState(ops,
               Append(Pop(Pop(out)),
                      create_operator_node(operator, Top(Pop(out)), Top(out))))

\* The loop `while can_pop_operator(...): pop_operator_and_create_node(...)`.
RECURSIVE reduce_while_can_pop(_, _)
reduce_while_can_pop(current_operator, st) ==
    IF st.raised # None THEN st
    ELSE IF can_pop_operator(current_operator, st.operator_stack)
    THEN reduce_while_can_pop(current_operator,
                              pop_operator_and_create_node(st))
    ELSE st

\* The loop `while operator_stack and operator_stack[-1] != '('`.
RECURSIVE reduce_to_left_parenthesis(_)
reduce_to_left_parenthesis(st) ==
    IF st.raised # None THEN st
    ELSE IF st.operator_stack # <<>> /\ Top(st.operator_stack) # "("
    THEN reduce_to_left_parenthesis(pop_operator_and_create_node(st))
    ELSE st

process_right_parenthesis(st0) ==
    LET st == reduce_to_left_parenthesis(st0) IN
    IF st.raised # None THEN st
    ELSE IF st.operator_stack = <<>> THEN Raise(st, UnbalancedParentheses)
    ELSE LET ops == Pop(st.operator_stack)
             out == st.output_stack
         IN  IF ops # <<>> /\ Top(ops) \in FunctionNames
             THEN IF out = <<>>
                  THEN Raise(ParserState(Pop(ops), out), PopFromEmptyList)
                  ELSE ParserState(Pop(ops),
                         Append(Pop(out),
                                create_function_node(Top(ops), Top(out))))
             ELSE ParserState(ops, out)

\* The loop after the tokens: `while operator_stack: ...`.
RECURSIVE drain_operator_stack_unchecked(_)
drain_operator_stack_unchecked(st) ==
    IF st.raised # None THEN st
    ELSE IF st.operator_stack = <<>> THEN st
    ELSE drain_operator_stack_unchecked(pop_operator_and_create_node(st))

RECURSIVE drain_operator_stack(_)
drain_operator_stack(st) ==
    IF st.raised # None THEN st
    ELSE IF st.operator_stack = <<>> THEN st
    ELSE IF Top(st.operator_stack) = "(" THEN Raise(st, UnbalancedParentheses)
    ELSE drain_operator_stack(pop_operator_and_create_node(st))

-----------------------------------------------------------------------------
(* Floats.  A float is the record [k, n, d]:                               *)
(*   k = "fin"       the finite value n/d, d a power of two, in lowest     *)
(*                   terms, |n| and d at most MaxNum: these are floats,    *)
(*                   and + - * / on them is exact in IEEE-754 doubles;     *)
(*   k = "inf", "-inf", "nan"   the IEEE-754 special values;               *)
(*   k = "complex"   a Python complex number (value not kept);             *)
(*   k = "untracked" a float outside what the model keeps exactly (an      *)
(*                   inexact quotient, a transcendental value, a value     *)
(*                   beyond MaxNum); nothing is asserted of such a value.  *)
(* The sign of a zero is not kept: no branch of the code depends on it.    *)
(* An evaluation yields a float or an exception record.                    *)

Float(kind) == [k |-> kind, n |-> 0, d |-> 1]
Inf == Float("inf")
NegInf == Float("-inf")
NaN == Float("nan")
Complex == Float("complex")
Untracked == Float("untracked")

IsException(v) == "exc" \in DOMAIN v
IsFinite(v) == v.k = "fin"

Abs(i) == IF i < 0 THEN -i ELSE i

RECURSIVE Gcd(_, _)
Gcd(a, b) == IF b = 0 THEN a ELSE Gcd(b, a % b)

RECURSIVE IsPowerOfTwo(_)
IsPowerOfTwo(i) ==
    IF i = 1 THEN TRUE
    ELSE IF i % 2 = 1 THEN FALSE
    ELSE IsPowerOfTwo(i \div 2)

\* The float n/d (d # 0), when the model keeps it.
Fin(n, d) ==
    LET g == Gcd(Abs(n), Abs(d))
        nn == (IF d < 0 THEN -n ELSE n) \div g
        dd == Abs(d) \div g
    IN  IF Abs(nn) > MaxNum \/ dd > MaxNum \/ ~IsPowerOfTwo(dd)
        THEN Untracked
        ELSE [k |-> "fin", n |-> nn, d |-> dd]

IsZero(v) == IsFinite(v) /\ v.n = 0
Sign(v) == IF v.k = "inf" THEN 1
           ELSE IF v.k = "-inf" THEN -1
           ELSE IF v.n > 0 THEN 1 ELSE IF v.n < 0 THEN -1 ELSE 0
SignedInf(s) == IF s > 0 THEN Inf ELSE NegInf
IsInfinite(v) == v.k \in {"inf", "-inf"}
IsReal(v) == v.k \in {"fin", "inf", "-inf"}

Negate(v) ==
    IF IsFinite(v) THEN Fin(-v.n, v.d)
    ELSE IF v.k = "inf" THEN NegInf
    ELSE IF v.k = "-inf" THEN Inf
    ELSE v

\* a + b
FloatAdd(a, b) ==
    IF ~IsReal(a) \/ ~IsReal(b)
    THEN IF a.k \in {"complex", "untracked"} \/ b.k \in {"complex", "untracked"}
         THEN Untracked ELSE NaN
    ELSE IF IsFinite(a) /\ IsFinite(b) THEN Fin(a.n * b.d + b.n * a.d, a.d * b.d)
    ELSE IF IsInfinite(a) /\ IsInfinite(b)
    THEN IF a.k = b.k THEN a ELSE NaN
    ELSE IF IsInfinite(a) THEN a ELSE b

\* a - b
FloatSub(a, b) == FloatAdd(a, Negate(b))

\* a * b
FloatMul(a, b) ==
    IF ~IsReal(a) \/ ~IsReal(b)
    THEN IF a.k \in {"complex", "untracked"} \/ b.k \in {"complex", "untracked"}
         THEN Untracked ELSE NaN
    ELSE IF IsFinite(a) /\ IsFinite(b) THEN Fin(a.n * b.n, a.d * b.d)
    ELSE IF Sign(a) = 0 \/ Sign(b) = 0 THEN NaN
    ELSE SignedInf(Sign(a) * Sign(b))

\* a / b for b != 0
FloatDiv(a, b) ==
    IF ~IsReal(a) \/ ~IsReal(b)
    THEN IF a.k \in {"complex", "untracked"} \/ b.k \in {"complex", "untracked"}
         THEN Untracked ELSE NaN
    ELSE IF IsFinite(a) /\ IsFinite(b) THEN Fin(a.n * b.d, a.d * b.n)
    ELSE IF IsInfinite(a) /\ IsInfinite(b) THEN NaN
    ELSE IF IsInfinite(a) THEN SignedInf(Sign(a) * Sign(b))
    ELSE Fin(0, 1)

\* a ** e for a finite float a and an integer e >= 0, by repeated product.
RECURSIVE IntPower(_, _)
IntPower(a, e) ==
    IF e = 0 THEN Fin(1, 1)
    ELSE IF a.k = "untracked" THEN Untracked
    ELSE IF a.n = 0 THEN Fin(0, 1)
    ELSE IF a.n = 1 /\ a.d = 1 THEN a
    ELSE IF a.n = -1 /\ a.d = 1 THEN (IF e % 2 = 0 THEN Fin(1, 1) ELSE a)
    ELSE LET rest == IntPower(a, e - 1) IN
         IF rest.k = "untracked" THEN Untracked ELSE FloatMul(a, rest)

IsOddInteger(v) == IsFinite(v) /\ v.d = 1 /\ v.n % 2 = 1

\* a ** b, in the order CPython's float_pow decides it.
FloatPow(a, b) ==
    IF a.k \in {"complex", "untracked"} \/ b.k \in {"complex", "untracked"}
    THEN Untracked
    ELSE IF IsZero(b) THEN Fin(1, 1)
    ELSE IF a.k = "nan" THEN NaN
    ELSE IF b.k = "nan" THEN (IF a = Fin(1, 1) THEN Fin(1, 1) ELSE NaN)
    ELSE IF IsInfinite(b)
    THEN IF IsFinite(a) /\ Abs(a.n) = a.d THEN Fin(1, 1)
         ELSE IF (b.k = "inf") = (IsInfinite(a) \/ Abs(a.n) > a.d) THEN Inf
         ELSE Fin(0, 1)
    ELSE IF IsInfinite(a)
    THEN IF Sign(b) > 0
         THEN (IF IsOddInteger(b) THEN a ELSE Inf)
         ELSE Fin(0, 1)
    ELSE IF IsZero(a)
    THEN IF Sign(b) < 0
         THEN Exception("ZeroDivisionError",
                        "0.0 cannot be raised to a negative power")
         ELSE Fin(0, 1)
    ELSE IF b.d # 1
    THEN IF Sign(a) < 0 THEN Complex
         ELSE IF a = Fin(1, 1) THEN Fin(1, 1) ELSE Untracked
    ELSE IF b.n > 0 THEN IntPower(a, b.n)
    ELSE LET p == IntPower(a, -b.n) IN
         IF p.k = "untracked" THEN Untracked ELSE FloatDiv(Fin(1, 1), p)

\* The integer square root of i >= 0, or -1 when i is no perfect square.
ExactRoot(i) ==
    IF \E r \in 0..64 : r * r = i THEN CHOOSE r \in 0..64 : r * r = i ELSE -1

MathDomainError == Exception("ValueError", "math domain error")
MathRangeError == Exception("OverflowError", "math range error")
NotARealNumber == Exception("TypeError", "must be real number, not complex")
NotOrdered == Exception("TypeError", "'>=' not supported between complex and int")

\* math.sin, math.cos, math.tan: exact at 0, otherwise not kept.
MathTrig(at_zero, x) ==
    IF x.k = "complex" THEN NotARealNumber
    ELSE IF x.k = "untracked" THEN Untracked
    ELSE IF x.k = "nan" THEN NaN
    ELSE IF IsInfinite(x) THEN MathDomainError
    ELSE IF IsZero(x) THEN Fin(at_zero, 1)
    ELSE Untracked

MathLog(x) ==
    IF x.k = "complex" THEN NotARealNumber
    ELSE IF x.k = "untracked" THEN Untracked
    ELSE IF x.k = "nan" THEN NaN
    ELSE IF x.k = "inf" THEN Inf
    ELSE IF Sign(x) <= 0 THEN MathDomainError
    ELSE IF x = Fin(1, 1) THEN Fin(0, 1)
    ELSE Untracked

MathExp(x) ==
    IF x.k = "complex" THEN NotARealNumber
    ELSE IF x.k = "untracked" THEN Untracked
    ELSE IF x.k = "nan" THEN NaN
    ELSE IF x.k = "inf" THEN Inf
    ELSE IF x.k = "-inf" THEN Fin(0, 1)
    ELSE IF IsZero(x) THEN Fin(1, 1)
    ELSE IF x.n >= 710 * x.d THEN MathRangeError
    ELSE Untracked

MathSqrt(x) ==
    IF x.k \in {"nan", "inf", "untracked"} THEN x
    ELSE IF ExactRoot(x.n) >= 0 /\ ExactRoot(x.d) >= 0
    THEN Fin(ExactRoot(x.n), ExactRoot(x.d))
    ELSE Untracked

\* lambda x: math.sqrt(x) if x >= 0 else float('nan')
GuardedSqrt(x) ==
    IF x.k = "complex" THEN NotOrdered
    ELSE IF x.k = "untracked" THEN Untracked
    ELSE IF x.k = "nan" \/ Sign(x) < 0 THEN NaN
    ELSE MathSqrt(x)

BuiltinAbs(x) ==
    IF x.k = "complex" THEN Untracked
    ELSE IF IsInfinite(x) THEN Inf
    ELSE IF IsFinite(x) THEN Fin(Abs(x.n), x.d)
    ELSE x

\* lambda a, b: a / b if b != 0 else float('inf')
GuardedDiv(a, b) == IF IsZero(b) THEN Inf ELSE FloatDiv(a, b)

-----------------------------------------------------------------------------
(* Number literals and constants.                                          *)

DigitChars == <<"0", "1", "2", "3", "4", "5", "6", "7", "8", "9">>

RECURSIVE DecimalText(_)
DecimalText(i) ==
    IF i < 10 THEN DigitChars[i + 1]
    ELSE DecimalText(i \div 10) \o DigitChars[(i % 10) + 1]

\* float(value) for a literal matched by \d+(?:\.\d+)?: the integers up to
\* MaxLiteral and those with one decimal digit; other literals are not kept.
float(value) ==
    IF \E i \in 0..MaxLiteral : DecimalText(i) = value
    THEN Fin(CHOOSE i \in 0..MaxLiteral : DecimalText(i) = value, 1)
    ELSE IF \E i \in 0..MaxLiteral, f \in 0..9 :
                DecimalText(i) \o "." \o DecimalText(f) = value
    THEN LET p == CHOOSE p \in (0..MaxLiteral) \X (0..9) :
                     DecimalText(p[1]) \o "." \o DecimalText(p[2]) = value
         IN  Fin(p[1] * 10 + p[2], 10)
    ELSE Untracked

\* math.pi and math.e are irrational: their floats are not kept exactly.
ConstantValue(behaviour) == Untracked

create_number_node(value) == Node("NUMBER", float(value), None, None)

create_constant_node(value) ==
    Node("NUMBER", ConstantValue(constants[value]), None, None)

-----------------------------------------------------------------------------
(* The evaluator.  G is the record of the module globals `operations` and  *)
(* `functions`, each a table or Undefined: evaluate_operator_node,         *)
(* evaluate_function_node and evaluate_unary_node read the names that are  *)
(* not among their parameters from the module's globals.                   *)

Undefined == [type |-> "Undefined"]

NameError(name) == Exception("NameError", name)
KeyError(key) == Exception("KeyError", key)

CallOperation(behaviour, a, b) ==
    CASE behaviour = "a + b" -> FloatAdd(a, b)
      [] behaviour = "a - b" -> FloatSub(a, b)
      [] behaviour = "a * b" -> FloatMul(a, b)
      [] behaviour = "a / b if b != 0 else float('inf')" -> GuardedDiv(a, b)
      [] behaviour = "a ** b" -> FloatPow(a, b)

CallFunction(behaviour, x) ==
    CASE behaviour = "math.sin" -> MathTrig(0, x)
      [] behaviour = "math.cos" -> MathTrig(1, x)
      [] behaviour = "math.tan" -> MathTrig(0, x)
      [] behaviour = "math.sqrt(x) if x >= 0 else float('nan')" -> GuardedSqrt(x)
      [] behaviour = "math.log" -> MathLog(x)
      [] behaviour = "math.exp" -> MathExp(x)
      [] behaviour = "abs" -> BuiltinAbs(x)

evaluate_number_node(node) ==
    IF node.value = None THEN Fin(0, 1) ELSE node.value

RECURSIVE evaluate_expression_tree(_, _, _, _)

evaluate_operator_node(node, operations_arg, G) ==
    IF G.functions = Undefined THEN NameError("functions")
    ELSE LET left_value ==
                 evaluate_expression_tree(node.left, operations_arg,
                                          G.functions, G)
             right_value ==
                 evaluate_expression_tree(node.right, operations_arg,
                                          G.functions, G)
         IN  IF IsException(left_value) THEN left_value
             ELSE IF IsException(right_value) THEN right_value
             ELSE IF node.value \notin DOMAIN operations_arg
             THEN KeyError(node.value)
             ELSE CallOperation(operations_arg[node.value],
                                left_value, right_value)

evaluate_function_node(node, functions_arg, G) ==
    IF G.operations = Undefined THEN NameError("operations")
    ELSE LET argument_value ==
                 evaluate_expression_tree(node.left, G.operations,
                                          functions_arg, G)
         IN  IF IsException(argument_value) THEN argument_value
             ELSE IF node.value \notin DOMAIN functions_arg
             THEN KeyError(node.value)
             ELSE CallFunction(functions_arg[node.value], argument_value)

evaluate_unary_node(node, G) ==
    IF G.operations = Undefined THEN NameError("operations")
    ELSE IF G.functions = Undefined THEN NameError("functions")
    ELSE LET argument_value ==
                 evaluate_expression_tree(node.left, G.operations,
                                          G.functions, G)
         IN  IF IsException(argument_value) THEN argument_value
             ELSE IF node.value = "u-" THEN Negate(argument_value)
             ELSE argument_value

evaluate_expression_tree(node, operations_arg, functions_arg, G) ==
    IF node.type = "NUMBER" THEN evaluate_number_node(node)
    ELSE IF node.type = "OPERATOR"
    THEN evaluate_operator_node(node, operations_arg, G)
    ELSE IF node.type = "FUNCTION"
    THEN evaluate_function_node(node, functions_arg, G)
    ELSE IF node.type = "UNARY" THEN evaluate_unary_node(node, G)
    ELSE Exception("ValueError", "unknown node type")

-----------------------------------------------------------------------------
(* The tokenizer.  An expression is a sequence of characters; `position`   *)
(* counts the characters already consumed, as the code's index does.       *)

RECURSIVE Join(_)
Join(chars) ==
    IF chars = <<>> THEN "" ELSE Head(chars) \o Join(Tail(chars))

Digits == {"0", "1", "2", "3", "4", "5", "6", "7", "8", "9"}
Whitespace == {" ", "\t"}

CharAt(expression_arg, p) == expression_arg[p + 1]

\* The end of the longest run of characters of `class` that starts at p.
RECURSIVE RunEnd(_, _, _)
RunEnd(expression_arg, p, class) ==
    IF p < Len(expression_arg) /\ CharAt(expression_arg, p) \in class
    THEN RunEnd(expression_arg, p + 1, class)
    ELSE p

\* Whether the literal `word` stands at p.
StartsWith(expression_arg, p, word) ==
    /\ p + Len(word) <= Len(expression_arg)
    /\ SubSeq(expression_arg, p + 1, p + Len(word)) = word

\* An alternation of literals matches its first alternative that stands at
\* p; the empty word when none does.
RECURSIVE MatchAlternation(_, _, _)
MatchAlternation(expression_arg, p, words) ==
    IF words = <<>> THEN <<>>
    ELSE IF StartsWith(expression_arg, p, Head(words)) THEN Head(words)
    ELSE MatchAlternation(expression_arg, p, Tail(words))

\* r'\d+(?:\.\d+)?': the end of the match at p, or -1.
MatchNumber(expression_arg, p) ==
    LET int_end == RunEnd(expression_arg, p, Digits)
        frac_end == RunEnd(expression_arg, int_end + 1, Digits)
    IN  IF int_end = p THEN -1
        ELSE IF /\ int_end < Len(expression_arg)
                /\ CharAt(expression_arg, int_end) = "."
                /\ frac_end > int_end + 1
        THEN frac_end
        ELSE int_end

FunctionWords == << <<"s", "i", "n">>, <<"c", "o", "s">>, <<"t", "a", "n">>,
                    <<"s", "q", "r", "t">>, <<"l", "o", "g">>,
                    <<"e", "x", "p">>, <<"a", "b", "s">> >>
ConstantWords == << <<"p", "i">>, <<"e">> >>
OperatorChars == {"+", "-", "*", "/", "^"}
ParenChars == {"(", ")"}

Match(token_type, expression_arg, p, end) ==
    [type |-> token_type, value |-> Join(SubSeq(expression_arg, p + 1, end)),
     end |-> end]

\* create_token_patterns, tried in order; None when no pattern matches.
\* The whitespace pattern has the token type None.
match_token_at_position(expression_arg, p) ==
    IF MatchNumber(expression_arg, p) >= 0
    THEN Match("NUMBER", expression_arg, p, MatchNumber(expression_arg, p))
    ELSE IF MatchAlternation(expression_arg, p, FunctionWords) # <<>>
    THEN Match("FUNCTION", expression_arg, p,
               p + Len(MatchAlternation(expression_arg, p, FunctionWords)))
    ELSE IF MatchAlternation(expression_arg, p, ConstantWords) # <<>>
    THEN Match("CONSTANT", expression_arg, p,
               p + Len(MatchAlternation(expression_arg, p, ConstantWords)))
    ELSE IF CharAt(expression_arg, p) \in OperatorChars
    THEN Match("OPERATOR", expression_arg, p, p + 1)
    ELSE IF CharAt(expression_arg, p) \in ParenChars
    THEN Match("PAREN", expression_arg, p, p + 1)
    ELSE IF CharAt(expression_arg, p) \in Whitespace
    THEN Match(NoneStr, expression_arg, p,
               RunEnd(expression_arg, p, Whitespace))
    ELSE None

InvalidCharacter(char) == Exception("ValueError", "invalid character: " \o char)

\* One iteration of the while loop of tokenize_expression, on the record
\* [tokens, position, raised].
LexerState(toks, p) == [tokens |-> toks, position |-> p, raised |-> None]

tokenize_step_skips(expression_arg, st) ==
    LET match_result ==
            match_token_at_position(expression_arg, st.position)
    IN  IF match_result # None
        THEN IF match_result.type # NoneStr
             THEN LexerState(Append(st.tokens,
                                    <<match_result.type, match_result.value>>),
                             match_result.end + 1)
             ELSE LexerState(st.tokens, match_result.end)
        ELSE Raise(st, InvalidCharacter(CharAt(expression_arg, st.position)))

tokenize_step_reports_first(expression_arg, st) ==
    LET match_result ==
            match_token_at_position(expression_arg, st.position)
    IN  IF match_result # None
        THEN IF match_result.type # NoneStr
             THEN LexerState(Append(st.tokens,
                                    <<match_result.type, match_result.value>>),
                             match_result.end)
             ELSE LexerState(st.tokens, match_result.end)
        ELSE Raise(st, InvalidCharacter(CharAt(expression_arg, 0)))

tokenize_step(expression_arg, st) ==
    LET match_result ==
            match_token_at_position(expression_arg, st.position)
    IN  IF match_result # None
        THEN IF match_result.type # NoneStr
             THEN LexerState(Append(st.tokens,
                                    <<match_result.type, match_result.value>>),
                             match_result.end)
             ELSE LexerState(st.tokens, match_result.end)
        ELSE Raise(st, InvalidCharacter(CharAt(expression_arg, st.position)))

RECURSIVE tokenize_loop(_, _)
tokenize_loop(expression_arg, st) ==
    IF st.raised # None THEN st
    ELSE IF st.position < Len(expression_arg)
    THEN tokenize_loop(expression_arg, tokenize_step(expression_arg, st))
    ELSE st

\* The record [tokens, position, raised] at the end of the call: the list
\* returned when raised = None.
tokenize_expression(expression_arg) ==
    tokenize_loop(expression_arg, LexerState(<<>>, 0))

\* The expressions __main__ hands to run_test_cases.
test_expressions == <<
    <<"3", " ", "+", " ", "5", " ", "*", " ", "2">>,
    <<"(", "3", " ", "+", " ", "5", ")", " ", "*", " ", "2">>,
    <<"1", "0", " ", "/", " ", "2", " ", "-", " ", "3">>,
    <<"2", " ", "^", " ", "3", " ", "+", " ", "1">>,
    <<"1", ".", "5", " ", "*", " ", "2", " ", "+", " ", "3">>,
    <<"(", "(", "2", " ", "+", " ", "3", ")", " ", "*", " ", "4", ")", " ", "^", " ", "2">>,
    <<"-", "5", " ", "+", " ", "3">>,
    <<"s", "i", "n", "(", "0", ")", " ", "+", " ", "c", "o", "s", "(", "0", ")">>,
    <<"s", "q", "r", "t", "(", "1", "6", ")", " ", "*", " ", "2">>,
    <<"p", "i", " ", "*", " ", "2">>,
    <<"e", " ", "^", " ", "2">>,
    <<"a", "b", "s", "(", "-", "5", ")", " ", "*", " ", "2">>,
    <<"3", " ", "+", " ", "-", "2">>,
    <<"-", "s", "i", "n", "(", "p", "i", "/", "2", ")">> >>

\* Lines typed at the prompt of run_interactive_mode that the checks follow
\* beside the exhaustively enumerated inputs.
interactive_expressions == <<
    <<"2", " ", "^", " ", "3", " ", "^", " ", "2">>,
    <<"7", " ", "-", " ", "3", " ", "-", " ", "2">>,
    <<"8", " ", "/", " ", "4", " ", "/", " ", "2">>,
    <<"2", " ", "-", " ", "3", " ", "*", " ", "5", " ", "^", " ", "2">>,
    <<"(", "3", " ", "+", " ", "5">>,
    <<"3", " ", "+", " ", "5", ")">>,
    <<"1", "/", "0">>,
    <<"s", "q", "r", "t", "(", "-", "4", ")">>,
    <<"l", "o", "g", "(", "0", ")">>,
    <<"3", " ", "&", " ", "5">>,
    <<"2", " ", "*", " ", "(", "3", " ", "+", " ", "5", ")", " ", "*", " ", "2">> >>

Range(seq) == {seq[i] : i \in 1..Len(seq)}

-----------------------------------------------------------------------------
(* build_syntax_tree and calculate_expression.                             *)

\* The value an OPERATOR token is pushed with (line 246).
operator_symbol(token, prev_type, prev_value) ==
    IF should_be_unary(token[1], token[2], prev_type, prev_value)
    THEN process_unary_operator(token[2])
    ELSE token[2]

\* The body of the for loop over the tokens, without the update of
\* previous_token_type and previous_token_value.
process_token(st, token, prev_type, prev_value) ==
    LET token_type == token[1]
        token_value == token[2]
    IN  IF token_type = "NUMBER"
        THEN ParserState(st.operator_stack,
                         Append(st.output_stack, create_number_node(token_value)))
        ELSE IF token_type = "CONSTANT"
        THEN ParserState(st.operator_stack,
                         Append(st.output_stack,
                                create_constant_node(token_value)))
        ELSE IF token_type = "FUNCTION"
        THEN ParserState(Append(st.operator_stack, token_value), st.output_stack)
        ELSE IF token_type = "OPERATOR"
        THEN LET symbol == operator_symbol(token, prev_type, prev_value)
                 reduced == reduce_while_can_pop(symbol, st)
             IN  IF reduced.raised # None THEN reduced
                 ELSE ParserState(Append(reduced.operator_stack, symbol),
                                  reduced.output_stack)
        ELSE IF token_value = "("
        THEN ParserState(Append(st.operator_stack, "("), st.output_stack)
        ELSE IF token_value = ")"
        THEN process_right_parenthesis(st)
        ELSE st

\* previous_token_value after the token (line 269): the rewritten value.
next_previous_value(token, prev_type, prev_value) ==
    IF token[1] = "OPERATOR"
    THEN operator_symbol(token, prev_type, prev_value)
    ELSE token[2]

\* Lines 271-283: drain the operator stack and return the only output node.
\* The record [tree, raised].
finish_build(st0) ==
    LET st == drain_operator_stack(st0) IN
    IF st.raised # None THEN [tree |-> None, raised |-> st.raised]
    ELSE IF Len(st.output_stack) # 1
    THEN [tree |-> None, raised |-> TreeBuildError]
    ELSE [tree |-> st.output_stack[1], raised |-> None]

RECURSIVE build_loop(_, _, _, _, _)
build_loop(tokens_arg, i, st, prev_type, prev_value) ==
    IF st.raised # None THEN [tree |-> None, raised |-> st.raised]
    ELSE IF i > Len(tokens_arg) THEN finish_build(st)
    ELSE build_loop(tokens_arg, i + 1,
                    process_token(st, tokens_arg[i], prev_type, prev_value),
                    tokens_arg[i][1],
                    next_previous_value(tokens_arg[i], prev_type, prev_value))

\* The record [tree, raised].
build_syntax_tree(tokens_arg) ==
    build_loop(tokens_arg, 1, ParserState(<<>>, <<>>), NoneStr, NoneStr)

\* The record [value, raised] of a call with the tables of __main__.
calculate_expression(expression_arg, G) ==
    LET lexed == tokenize_expression(expression_arg) IN
    IF lexed.raised # None THEN [value |-> None, raised |-> lexed.raised]
    ELSE LET built == build_syntax_tree(lexed.tokens) IN
         IF built.raised # None THEN [value |-> None, raised |-> built.raised]
         ELSE LET value == evaluate_expression_tree(built.tree, operations,
                                                    functions, G)
              IN  IF IsException(value)
                  THEN [value |-> None, raised |-> value]
                  ELSE [value |-> value, raised |-> None]

-----------------------------------------------------------------------------
(* Spec: one call of build_syntax_tree on a token list, a token at a time, *)
(* then the evaluation of the tree it returned, as calculate_expression    *)
(* does (lines 376-381).                                                   *)

\* The module run as a script sets the globals (lines 449-450); imported as
\* a module it leaves them undefined.
ScriptGlobals == [operations |-> operations, functions |-> functions]
ImportGlobals == [operations |-> Undefined, functions |-> Undefined]

TokenAlphabet ==
    { <<"NUMBER", "0">>, <<"NUMBER", "2">>, <<"FUNCTION", "sqrt">>,
      <<"OPERATOR", "+">>, <<"OPERATOR", "-">>, <<"OPERATOR", "/">>,
      <<"OPERATOR", "^">>, <<"PAREN", "(">>, <<"PAREN", ")">> }

EnumeratedInputs == UNION { [1..n -> TokenAlphabet] : n \in 0..MaxLen }

Tokenized(expressions) ==
    { tokenize_expression(e).tokens :
        e \in { x \in Range(expressions) : tokenize_expression(x).raised = None } }

ParserInputs ==
    EnumeratedInputs \cup Tokenized(test_expressions)
                     \cup Tokenized(interactive_expressions)

Init ==
    /\ expression = <<>>
    /\ position = 0
    /\ tokens \in ParserInputs
    /\ index = 0
    /\ output_stack = <<>>
    /\ operator_stack = <<>>
    /\ previous_token_type = NoneStr
    /\ previous_token_value = NoneStr
    /\ pc = "scan"
    /\ raised = None
    /\ tree = None
    /\ result = None
    /\ globals \in {ScriptGlobals, ImportGlobals}
    /\ stdin = <<>>
    /\ stdout = <<>>
    /\ test_cases = ListIterator(<<>>)

\* The for loop has a next token, of the given type and with one of the
\* given values.
NextTokenIs(token_type, values) ==
    /\ pc = "scan"
    /\ index < Len(tokens)
    /\ tokens[index + 1][1] = token_type
    /\ tokens[index + 1][2] \in values

\* One iteration of the for loop (lines 229-269); an exception leaves the
\* loop before lines 268-269.
Iterate ==
    /\ LET token == tokens[index + 1]
           st == process_token(ParserState(operator_stack, output_stack),
                               token, previous_token_type, previous_token_value)
       IN  /\ index' = index + 1
           /\ output_stack' = st.output_stack
           /\ operator_stack' = st.operator_stack
           /\ raised' = st.raised
           /\ pc' = IF st.raised # None THEN "raised" ELSE "scan"
           /\ previous_token_type' =
                  IF st.raised # None THEN previous_token_type ELSE token[1]
           /\ previous_token_value' =
                  IF st.raised # None THEN previous_token_value
                  ELSE next_previous_value(token, previous_token_type,
                                           previous_token_value)
    /\ UNCHANGED <<expression, position, tokens, tree, result, globals,
                   stdin, stdout,
                   test_cases>>

ProcessNumber ==
    /\ NextTokenIs("NUMBER", {t[2] : t \in Range(tokens)})
    /\ Iterate

ProcessConstant ==
    /\ NextTokenIs("CONSTANT", DOMAIN constants)
    /\ Iterate

ProcessFunction ==
    /\ NextTokenIs("FUNCTION", FunctionNames)
    /\ Iterate

ProcessOperator ==
    /\ NextTokenIs("OPERATOR", OperatorChars)
    /\ Iterate

ProcessLeftParenthesis ==
    /\ NextTokenIs("PAREN", {"("})
    /\ Iterate

ProcessRightParenthesis ==
    /\ NextTokenIs("PAREN", {")"})
    /\ Iterate

\* Lines 271-283.
FinishBuild ==
    /\ pc = "scan"
    /\ index = Len(tokens)
    /\ LET st == drain_operator_stack(ParserState(operator_stack, output_stack))
           built == finish_build(ParserState(operator_stack, output_stack))
       IN  /\ output_stack' = st.output_stack
           /\ operator_stack' = st.operator_stack
           /\ raised' = built.raised
           /\ tree' = built.tree
           /\ pc' = IF built.raised # None THEN "raised" ELSE "built"
    /\ UNCHANGED <<expression, position, tokens, index, previous_token_type,
                   previous_token_value, result, globals, stdin, stdout,
                   test_cases>>

\* Line 381.
Evaluate ==
    /\ pc = "built"
    /\ LET value == evaluate_expression_tree(tree, operations, functions,
                                             globals)
       IN  IF IsException(value)
           THEN /\ raised' = value
                /\ result' = None
                /\ pc' = "raised"
           ELSE /\ raised' = None
                /\ result' = value
                /\ pc' = "evaluated"
    /\ UNCHANGED <<expression, position, tokens, index, output_stack,
                   operator_stack, previous_token_type, previous_token_value,
                   tree, globals, stdin, stdout,
                   test_cases>>

Next ==
    \/ ProcessNumber
    \/ ProcessConstant
    \/ ProcessFunction
    \/ ProcessOperator
    \/ ProcessLeftParenthesis
    \/ ProcessRightParenthesis
    \/ FinishBuild
    \/ Evaluate

Spec == Init /\ [][Next]_vars

-----------------------------------------------------------------------------
(* Vocabulary of the properties of build_syntax_tree.                      *)

TokensOf(expression_arg) == tokenize_expression(expression_arg).tokens

\* build_syntax_tree has returned a node (and the evaluator may have run).
Returned == tree # None

IsOperandToken(token) == token[1] \in {"NUMBER", "CONSTANT"}
IsLeftParen(token) == token = <<"PAREN", "(">>
IsRightParen(token) == token = <<"PAREN", ")">>

\* The leaf that stands for a NUMBER or CONSTANT token.
Leaf(token) ==
    IF token[1] = "NUMBER" THEN create_number_node(token[2])
    ELSE create_constant_node(token[2])

\* Open parentheses minus closed ones among the first i tokens of s.
ParenDepth(s, i) ==
    Cardinality({j \in 1..i : IsLeftParen(s[j])})
    - Cardinality({j \in 1..i : IsRightParen(s[j])})

\* The rank of a binary operator: ^ over * and /, these over + and -.
Rank(symbol) ==
    IF symbol \in {"+", "-"} THEN 1 ELSE IF symbol \in {"*", "/"} THEN 2 ELSE 3

\* The binary operators of s that stand outside every parenthesis.
OuterOperators(s) ==
    {i \in 1..Len(s) : s[i][1] = "OPERATOR" /\ ParenDepth(s, i) = 0}

\* s is an expression built from numbers, binary operators and parentheses.
RECURSIVE IsBinaryExpression(_)
IsBinaryExpression(s) ==
    \/ Len(s) = 1 /\ IsOperandToken(s[1])
    \/ /\ Len(s) >= 3
       /\ IsLeftParen(s[1])
       /\ IsRightParen(s[Len(s)])
       /\ \A i \in 1..(Len(s) - 1) : ParenDepth(s, i) > 0
       /\ IsBinaryExpression(SubSeq(s, 2, Len(s) - 1))
    \/ \E i \in OuterOperators(s) :
          /\ IsBinaryExpression(SubSeq(s, 1, i - 1))
          /\ IsBinaryExpression(SubSeq(s, i + 1, Len(s)))

\* Node t groups the binary expression s by rank: its root is one of the
\* lowest-ranked operators outside the parentheses of s, and its children
\* group what stands left and right of that operator; a parenthesised s is
\* grouped as its content.
RECURSIVE GroupsByRank(_, _)
GroupsByRank(t, s) ==
    IF Len(s) = 1 THEN t = Leaf(s[1])
    ELSE IF OuterOperators(s) = {}
    THEN GroupsByRank(t, SubSeq(s, 2, Len(s) - 1))
    ELSE /\ t.type = "OPERATOR"
         /\ \E i \in OuterOperators(s) :
               /\ \A j \in OuterOperators(s) : Rank(s[i][2]) <= Rank(s[j][2])
               /\ t.value = s[i][2]
               /\ GroupsByRank(t.left, SubSeq(s, 1, i - 1))
               /\ GroupsByRank(t.right, SubSeq(s, i + 1, Len(s)))

\* C1: for an expression built from numbers, binary operators and
\* parentheses, build_syntax_tree returns a tree in which a higher-ranked
\* operator is grouped tighter than a lower-ranked neighbour and a
\* parenthesised sub-expression is one operand of the operators around it;
\* 3 + 5 * 2 evaluates to 13 and (3 + 5) * 2 to 16.
C1_PrecedenceGrouping ==
    /\ (IsBinaryExpression(tokens) /\ pc # "scan") =>
           (Returned /\ GroupsByRank(tree, tokens))
    /\ (pc = "evaluated" /\ tokens = TokensOf(test_expressions[1])) =>
           result = Fin(13, 1)
    /\ (pc = "evaluated" /\ tokens = TokensOf(test_expressions[2])) =>
           result = Fin(16, 1)

C1_Witness ==
    /\ pc = "evaluated"
    /\ tokens = TokensOf(test_expressions[2])
    /\ result = Fin(16, 1)

\* s is a chain a op b op ... of operands joined by binary operators of one
\* rank, without parentheses.
IsChain(s) ==
    /\ Len(s) >= 3
    /\ Len(s) % 2 = 1
    /\ \A i \in 1..Len(s) :
          IF i % 2 = 1 THEN IsOperandToken(s[i])
          ELSE s[i][1] = "OPERATOR" /\ Rank(s[i][2]) = Rank(s[2][2])

\* The chain grouped from the left: ((a op b) op c) op d.
RECURSIVE LeftGrouped(_)
LeftGrouped(s) ==
    IF Len(s) = 1 THEN Leaf(s[1])
    ELSE Node("OPERATOR", s[Len(s) - 1][2],
              LeftGrouped(SubSeq(s, 1, Len(s) - 2)), Leaf(s[Len(s)]))

\* The chain grouped from the right: a op (b op (c op d)).
RECURSIVE RightGrouped(_)
RightGrouped(s) ==
    IF Len(s) = 1 THEN Leaf(s[1])
    ELSE Node("OPERATOR", s[2][2],
              Leaf(s[1]), RightGrouped(SubSeq(s, 3, Len(s))))

\* C2: a chain of + and -, or of * and /, is grouped from the left, the left
\* operand of each node being the earlier one in the input; a chain of ^ is
\* grouped from the right; 2 ^ 3 ^ 2 evaluates to 512.
C2_Associativity ==
    /\ (IsChain(tokens) /\ pc # "scan") =>
           tree = IF tokens[2][2] = "^" THEN RightGrouped(tokens)
                  ELSE LeftGrouped(tokens)
    /\ (pc = "evaluated" /\ tokens = TokensOf(interactive_expressions[1])) =>
           result = Fin(512, 1)

C2_Witness ==
    /\ pc = "evaluated"
    /\ tokens = TokensOf(interactive_expressions[1])
    /\ result = Fin(512, 1)

\* The symbol the i-th token of s, an OPERATOR, is to be pushed with: the
\* unary one when + or - stands first, after "(" or after an operator.
ExpectedSymbol(s, i) ==
    IF /\ s[i][2] \in {"+", "-"}
       /\ \/ i = 1
          \/ IsLeftParen(s[i - 1])
          \/ s[i - 1][1] = "OPERATOR"
    THEN "u" \o s[i][2]
    ELSE s[i][2]

\* s is a run of signs in front of one operand.
IsSignChain(s) ==
    /\ Len(s) >= 2
    /\ IsOperandToken(s[Len(s)])
    /\ \A i \in 1..(Len(s) - 1) : s[i][1] = "OPERATOR" /\ s[i][2] \in {"+", "-"}

\* The signs nested to the right: - - x is -(-x).
RECURSIVE SignsNested(_)
SignsNested(s) ==
    IF Len(s) = 1 THEN Leaf(s[1])
    ELSE Node("UNARY", "u" \o s[1][2], SignsNested(Tail(s)), None)

\* C3: an OPERATOR token is pushed as the unary symbol exactly when it is +
\* or - and stands first, after "(" or after an operator, and as itself in
\* every other position; a run of signs nests to the right; 3 + -2 evaluates
\* to 1 and -5 + 3 to -2.
C3_UnaryRewrite ==
    /\ (pc = "scan" /\ index >= 1 /\ tokens[index][1] = "OPERATOR") =>
           /\ Top(operator_stack) = ExpectedSymbol(tokens, index)
           /\ previous_token_value = ExpectedSymbol(tokens, index)
           /\ previous_token_type = "OPERATOR"
    /\ (IsSignChain(tokens) /\ pc # "scan") => tree = SignsNested(tokens)
    /\ (pc = "evaluated" /\ tokens = TokensOf(test_expressions[13])) =>
           result = Fin(1, 1)
    /\ (pc = "evaluated" /\ tokens = TokensOf(test_expressions[7])) =>
           result = Fin(-2, 1)

C3_Witness ==
    /\ pc = "evaluated"
    /\ tokens = TokensOf(test_expressions[13])
    /\ tree = Node("OPERATOR", "+", Leaf(<<"NUMBER", "3">>),
                   Node("UNARY", "u-", Leaf(<<"NUMBER", "2">>), None))
    /\ result = Fin(1, 1)

\* The parentheses of s are unbalanced: a ")" without an open "(" before it,
\* or a "(" that is never closed.
Unbalanced(s) ==
    \/ \E i \in 1..Len(s) : ParenDepth(s, i) < 0
    \/ ParenDepth(s, Len(s)) > 0

\* Node t, or a node below it, carries the symbol.
RECURSIVE HasSymbol(_, _)
HasSymbol(t, symbol) ==
    /\ t # None
    /\ t.type # "NUMBER"
    /\ \/ t.value = symbol
       \/ HasSymbol(t.left, symbol)
       \/ HasSymbol(t.right, symbol)

\* C4: on a token sequence with unbalanced parentheses build_syntax_tree
\* returns no node, so no result is computed, and once the tokens are used
\* up the call has failed; no node is ever made of a "(".
C4_UnbalancedParentheses ==
    /\ Unbalanced(tokens) =>
           /\ tree = None
           /\ result = None
           /\ pc \in {"scan", "raised"}
    /\ \A i \in 1..Len(output_stack) : ~HasSymbol(output_stack[i], "(")
    /\ ~HasSymbol(tree, "(")

C4_Witness ==
    /\ tokens = TokensOf(interactive_expressions[5])
    /\ index = Len(tokens)
    /\ operator_stack = <<"(">>
    /\ Len(output_stack) = 1
    /\ pc = "raised"
    /\ raised = UnbalancedParentheses

StartsOperand(token) ==
    IsOperandToken(token) \/ token[1] = "FUNCTION" \/ IsLeftParen(token)
EndsOperand(token) == IsOperandToken(token) \/ IsRightParen(token)

\* The i-th token of s is an operator that stays binary.
IsBinaryAt(s, i) ==
    s[i][1] = "OPERATOR" /\ ExpectedSymbol(s, i) = s[i][2]

\* Every binary operator of s has an operand on each side, no two operands
\* are adjacent, and every function name is followed by "(".
WellFormedInfix(s) ==
    /\ \A i \in 1..Len(s) :
          IsBinaryAt(s, i) =>
              /\ i > 1
              /\ EndsOperand(s[i - 1])
              /\ i < Len(s)
              /\ StartsOperand(s[i + 1]) \/ s[i + 1][1] = "OPERATOR"
    /\ \A i \in 1..(Len(s) - 1) :
          EndsOperand(s[i]) => ~StartsOperand(s[i + 1])
    /\ \A i \in 1..Len(s) :
          s[i][1] = "FUNCTION" => (i < Len(s) /\ IsLeftParen(s[i + 1]))

\* C5: build_syntax_tree returns a node only for a well-formed infix token
\* sequence; every other sequence fails with a parse error.
C5_OnlyWellFormedInfix == Returned => WellFormedInfix(tokens)

\* C6: with the module run as a script, the evaluation of a tree that
\* build_syntax_tree returned never fails: whatever the operator or function
\* application, calculate_expression returns a number.
C6_EvaluationNeverFails ==
    (Returned /\ globals = ScriptGlobals) => pc # "raised"

\* What the last call returned or raised.
Outcome == IF pc = "raised" THEN raised ELSE result

\* The tables passed to the top-level call, used at every level.
PassedTables == [operations |-> operations, functions |-> functions]

\* C7: the outcome of the evaluation is decided by the tree and the tables
\* passed to the top-level call, which are the ones used at every level of
\* the recursion, whatever the rest of the program state.
C7_PassedTablesDecide ==
    (Returned /\ pc \in {"evaluated", "raised"}) =>
        Outcome = evaluate_expression_tree(tree, operations, functions,
                                           PassedTables)

-----------------------------------------------------------------------------
(* SpecLex: one call of tokenize_expression, an iteration of its while     *)
(* loop at a time.                                                         *)

CharAlphabet == {"1", ".", "s", "i", "n", "e", "+", " ", "&"}

EnumeratedExpressions == UNION { [1..n -> CharAlphabet] : n \in 0..MaxChars }

LexerInputs ==
    EnumeratedExpressions \cup Range(test_expressions)
                          \cup Range(interactive_expressions)

InitLex ==
    /\ expression \in LexerInputs
    /\ position = 0
    /\ tokens = <<>>
    /\ index = 0
    /\ output_stack = <<>>
    /\ operator_stack = <<>>
    /\ previous_token_type = NoneStr
    /\ previous_token_value = NoneStr
    /\ pc = "lex"
    /\ raised = None
    /\ tree = None
    /\ result = None
    /\ globals = ScriptGlobals
    /\ stdin = <<>>
    /\ stdout = <<>>
    /\ test_cases = ListIterator(<<>>)

\* One iteration of the while loop (lines 203-212).
LexIterate ==
    /\ LET st == tokenize_step(expression, LexerState(tokens, position))
       IN  /\ tokens' = st.tokens
           /\ position' = st.position
           /\ raised' = st.raised
           /\ pc' = IF st.raised # None THEN "raised" ELSE "lex"
    /\ UNCHANGED <<expression, index, output_stack, operator_stack,
                   previous_token_type, previous_token_value, tree, result,
                   globals, stdin, stdout,
                   test_cases>>

\* Lines 206-210 with a pattern of a token type.
AppendToken ==
    /\ pc = "lex"
    /\ position < Len(expression)
    /\ match_token_at_position(expression, position) # None
    /\ match_token_at_position(expression, position).type # NoneStr
    /\ LexIterate

\* Lines 206-210 with the whitespace pattern.
SkipWhitespace ==
    /\ pc = "lex"
    /\ position < Len(expression)
    /\ match_token_at_position(expression, position) # None
    /\ match_token_at_position(expression, position).type = NoneStr
    /\ LexIterate

\* Lines 211-212.
RaiseInvalidCharacter ==
    /\ pc = "lex"
    /\ position < Len(expression)
    /\ match_token_at_position(expression, position) = None
    /\ LexIterate

\* Line 214.
ReturnTokens ==
    /\ pc = "lex"
    /\ position >= Len(expression)
    /\ pc' = "lexed"
    /\ UNCHANGED <<expression, position, tokens, index, output_stack,
                   operator_stack, previous_token_type, previous_token_value,
                   raised, tree, result, globals, stdin, stdout,
                   test_cases>>

NextLex ==
    \/ AppendToken
    \/ SkipWhitespace
    \/ RaiseInvalidCharacter
    \/ ReturnTokens

SpecLex == InitLex /\ [][NextLex]_vars

IsNotWhitespace(char) == char \notin Whitespace

\* The characters of a string that are no whitespace, in order.
NonWhitespace(chars) == SelectSeq(chars, IsNotWhitespace)

\* The texts of the tokens, concatenated in order.
RECURSIVE TokenTexts(_)
TokenTexts(toks) ==
    IF toks = <<>> THEN "" ELSE Head(toks)[2] \o TokenTexts(Tail(toks))

\* C8: when tokenize_expression returns, the texts of the tokens concatenated
\* in order are the input without its whitespace; while it runs, they are
\* the consumed part of the input without its whitespace.
C8_TokensReproduceInput ==
    /\ pc = "lexed" => TokenTexts(tokens) = Join(NonWhitespace(expression))
    /\ pc = "lex" =>
           TokenTexts(tokens) =
               Join(NonWhitespace(SubSeq(expression, 1, position)))

C8_Witness ==
    /\ pc = "lexed"
    /\ expression = test_expressions[8]
    /\ Len(tokens) = 9
    /\ tokens[5] = <<"OPERATOR", "+">>

-----------------------------------------------------------------------------
(* SpecRepl: the loop of run_interactive_mode (lines 427-444).  A line is  *)
(* a sequence of characters; stdin holds the lines that input() returns    *)
(* before it raises EOFError at the end of the input.                      *)

\* str.lower() on the letters of the model's lines.
LowerChar(char) ==
    CASE char = "E" -> "e"
      [] char = "X" -> "x"
      [] char = "I" -> "i"
      [] char = "T" -> "t"
      [] OTHER -> char

Lower(chars) == [i \in 1..Len(chars) |-> LowerChar(chars[i])]

ExitKeyword == <<"e", "x", "i", "t">>

EndOfFile == Exception("EOFError", "EOF when reading a line")

\* The classes derived from Exception among those the program meets;
\* KeyboardInterrupt derives from BaseException only.
ExceptionClasses ==
    {"ValueError", "IndexError", "ZeroDivisionError", "OverflowError",
     "TypeError", "NameError", "KeyError", "EOFError"}

\* A handler that takes the parser's and the tokenizer's errors only.
except_ValueError(exception) == exception.exc = "ValueError"

\* `except Exception` (lines 411 and 443): does the handler take the exception?
except_Exception(exception) == exception.exc \in ExceptionClasses

\* print(f"= {result}"), print(f"Ошибка: {e}") and print("\nВыход...").
PrintedResult(value) == [text |-> "= ", what |-> value]
PrintedError(exception) == [text |-> "error: ", what |-> exception]
PrintedExit == [text |-> "exit...", what |-> None]

InteractiveLines ==
    {ExitKeyword, <<"E", "x", "i", "T">>, test_expressions[1]}
    \cup Range(interactive_expressions)

InitRepl ==
    /\ stdin \in UNION { [1..n -> InteractiveLines] : n \in 0..MaxLines }
    /\ stdout = <<>>
    /\ test_cases = ListIterator(<<>>)
    /\ pc = "prompt"
    /\ globals \in {ScriptGlobals, ImportGlobals}
    /\ expression = <<>>
    /\ position = 0
    /\ tokens = <<>>
    /\ index = 0
    /\ output_stack = <<>>
    /\ operator_stack = <<>>
    /\ previous_token_type = NoneStr
    /\ previous_token_value = NoneStr
    /\ raised = None
    /\ tree = None
    /\ result = None

ReplUnchanged ==
    UNCHANGED <<position, tokens, index, output_stack, operator_stack,
                previous_token_type, previous_token_value, tree, globals,
                test_cases>>

\* Lines 429-432: input() returns the exit keyword in any case of letters.
ReadExit ==
    /\ pc = "prompt"
    /\ stdin # <<>>
    /\ Lower(Head(stdin)) = ExitKeyword
    /\ expression' = Head(stdin)
    /\ stdin' = Tail(stdin)
    /\ pc' = "exited"
    /\ UNCHANGED <<stdout, raised, result>>
    /\ ReplUnchanged

\* Lines 434-438 and 443-444: the result of the call is printed, or the
\* exception it raised is, if the handler takes it.
LineOutcome(call) ==
    /\ raised' = call.raised
    /\ result' = call.value
    /\ stdout' =
           IF call.raised = None
           THEN Append(stdout, PrintedResult(call.value))
           ELSE IF except_Exception(call.raised)
           THEN Append(stdout, PrintedError(call.raised))
           ELSE stdout
    /\ pc' = IF call.raised = None \/ except_Exception(call.raised)
             THEN "prompt" ELSE "traceback"

\* Lines 429-438 and 443-444: input() returns an expression.
ReadExpression ==
    /\ pc = "prompt"
    /\ stdin # <<>>
    /\ Lower(Head(stdin)) # ExitKeyword
    /\ Len(stdout) < MaxPrinted
    /\ LineOutcome(calculate_expression(Head(stdin), globals))
    /\ expression' = Head(stdin)
    /\ stdin' = Tail(stdin)
    /\ ReplUnchanged

\* Lines 429 and 443-444: at the end of the input input() raises EOFError,
\* an Exception, which the last handler prints.
ReadEndOfInput ==
    /\ pc = "prompt"
    /\ stdin = <<>>
    /\ Len(stdout) < MaxPrinted
    /\ raised' = EndOfFile
    /\ stdout' = IF except_Exception(EndOfFile)
                 THEN Append(stdout, PrintedError(EndOfFile)) ELSE stdout
    /\ pc' = IF except_Exception(EndOfFile) THEN "prompt" ELSE "traceback"
    /\ UNCHANGED <<expression, stdin, result>>
    /\ ReplUnchanged

\* Lines 440-442: Ctrl-C while input() waits.
KeyboardInterrupt ==
    /\ pc = "prompt"
    /\ Len(stdout) < MaxPrinted
    /\ stdout' = Append(stdout, PrintedExit)
    /\ pc' = "exited"
    /\ UNCHANGED <<expression, stdin, raised, result>>
    /\ ReplUnchanged

NextRepl ==
    \/ ReadExit
    \/ ReadExpression
    \/ ReadEndOfInput
    \/ KeyboardInterrupt

SpecRepl == InitRepl /\ [][NextRepl]_vars

\* input() has hit the end of the input.
EndOfInputReached ==
    \E i \in 1..Len(stdout) : stdout[i] = PrintedError(EndOfFile)

\* C10: once the input is the exit keyword or standard input has reached its
\* end, the interactive loop has ended: it does not loop on after the end of
\* the input.
C10_EndsAtEndOfInput ==
    /\ (expression # <<>> /\ Lower(expression) = ExitKeyword) => pc = "exited"
    /\ EndOfInputReached => pc = "exited"

-----------------------------------------------------------------------------
(* SpecDrivers: one call of run_test_cases (lines 392-412) on a list of    *)
(* expressions, or one call of run_interactive_mode (lines 427-444).       *)

\* print(f"{expr} = {result}"), print_tree_structure(tree) and
\* print(f"Ошибка в '{expr}': {error}").
PrintedCase(expr, value) == [text |-> " = ", expr |-> expr, what |-> value]
PrintedTree(expr) == [text |-> "tree of ", expr |-> expr, what |-> None]
PrintedCaseError(expr, error) ==
    [text |-> "error in ", expr |-> expr, what |-> error]

\* The lists run_test_cases is called with: the one of __main__ and the short
\* lists of the lines of the interactive mode.
TestLists ==
    {test_expressions}
    \cup UNION { [1..n -> InteractiveLines] : n \in 0..MaxLines }

InitDrivers ==
    /\ \/ /\ pc = "for"
          /\ test_cases \in { ListIterator(list) : list \in TestLists }
          /\ stdin = <<>>
       \/ /\ pc = "prompt"
          /\ test_cases = ListIterator(<<>>)
          /\ stdin \in UNION { [1..n -> InteractiveLines] : n \in 0..MaxLines }
    /\ stdout = <<>>
    /\ globals \in {ScriptGlobals, ImportGlobals}
    /\ expression = <<>>
    /\ position = 0
    /\ tokens = <<>>
    /\ index = 0
    /\ output_stack = <<>>
    /\ operator_stack = <<>>
    /\ previous_token_type = NoneStr
    /\ previous_token_value = NoneStr
    /\ raised = None
    /\ tree = None
    /\ result = None

\* Lines 398-412: the expression has a result, which is printed (the tree of
\* an expression equal to the first of the list is built again, as it was
\* built for the result, and printed), or it raises and the handler prints
\* the exception it takes.
TestCaseOutcome(expr, call) ==
    /\ expression' = expr
    /\ raised' = call.raised
    /\ result' = IF call.raised = None THEN call.value ELSE result
    /\ stdout' =
           IF call.raised = None
           THEN IF expr = test_cases.list[1]
                THEN stdout \o <<PrintedCase(expr, call.value),
                                 PrintedTree(expr)>>
                ELSE Append(stdout, PrintedCase(expr, call.value))
           ELSE IF except_Exception(call.raised)
           THEN Append(stdout, PrintedCaseError(expr, call.raised))
           ELSE stdout
    /\ pc' = IF call.raised = None \/ except_Exception(call.raised)
             THEN "for" ELSE "traceback"

\* Lines 392-412: one turn of the for loop.
RunTestCase ==
    /\ pc = "for"
    /\ test_cases.next <= Len(test_cases.list)
    /\ TestCaseOutcome(test_cases.list[test_cases.next],
                       calculate_expression(test_cases.list[test_cases.next],
                                            globals))
    /\ test_cases' = [test_cases EXCEPT !.next = @ + 1]
    /\ UNCHANGED <<position, tokens, index, output_stack, operator_stack,
                   previous_token_type, previous_token_value, tree, globals,
                   stdin>>

\* Line 392: the list is exhausted and run_test_cases returns.
ReturnFromTestCases ==
    /\ pc = "for"
    /\ test_cases.next > Len(test_cases.list)
    /\ pc' = "returned"
    /\ UNCHANGED <<expression, position, tokens, index, output_stack,
                   operator_stack, previous_token_type, previous_token_value,
                   raised, tree, result, globals, stdin, stdout, test_cases>>

NextDrivers ==
    \/ RunTestCase
    \/ ReturnFromTestCases
    \/ ReadExit
    \/ ReadExpression
    \/ ReadEndOfInput
    \/ KeyboardInterrupt

SpecDrivers == InitDrivers /\ [][NextDrivers]_vars

\* The expression is not the exit keyword and calculate_expression raises on
\* it, in lexing, parsing or evaluation.
Fails(expr) ==
    /\ Lower(expr) # ExitKeyword
    /\ calculate_expression(expr, globals).raised # None

IsReport(printed) == printed.text \in {"error: ", "error in "}
IsResult(printed) == printed.text \in {"= ", " = "}

\* The interactive loop takes a failing line: it prints the exception and is
\* at the prompt again, with the rest of the input still to be read.
InteractiveFailureContinues ==
    (pc = "prompt" /\ stdin # <<>> /\ stdin' # stdin /\ Fails(Head(stdin)))
        => /\ pc' = "prompt"
           /\ stdin' = Tail(stdin)
           /\ stdout' = Append(stdout, PrintedError(
                            calculate_expression(Head(stdin), globals).raised))

\* The for loop of run_test_cases takes a failing expression: it prints the
\* exception and stays in the loop, at the next expression.
TestFailureContinues ==
    (pc = "for" /\ test_cases' # test_cases
         /\ Fails(test_cases.list[test_cases.next]))
        => /\ pc' = "for"
           /\ test_cases'.next = test_cases.next + 1
           /\ stdout' = Append(stdout, PrintedCaseError(
                            test_cases.list[test_cases.next],
                            calculate_expression(
                                test_cases.list[test_cases.next],
                                globals).raised))

\* The interactive loop has ended by the exit keyword or by Ctrl-C.
EndedByUser ==
    \/ expression # <<>> /\ Lower(expression) = ExitKeyword
    \/ stdout # <<>> /\ stdout[Len(stdout)] = PrintedExit

\* C11: in both drivers an expression that fails, with whatever exception, is
\* reported and the driver goes on with the next expression: no exception
\* leaves a driver, a failing step leaves the driver in its loop with the rest
\* of its expressions still to come, run_test_cases has printed a line for
\* every expression of its list when it returns, and the interactive loop
\* ends through the user only.
C11_DriversContinue ==
    /\ [](pc # "traceback")
    /\ [][InteractiveFailureContinues /\ TestFailureContinues]_vars
    /\ [](pc = "returned" => Len(stdout) >= Len(test_cases.list))
    /\ [](pc = "exited" => EndedByUser)

\* A driver has reported a failure and printed the result of a later
\* expression.
C11_Witness ==
    /\ pc \in {"for", "returned", "prompt"}
    /\ \E i, j \in 1..Len(stdout) :
          /\ i < j
          /\ IsReport(stdout[i])
          /\ stdout[i].what # EndOfFile
          /\ IsResult(stdout[j])

-----------------------------------------------------------------------------
(* The grammar of expressions, as a recursive-descent reading of a token    *)
(* list.  A reading is the record [ok, node, rest]: whether a phrase was    *)
(* read, its tree, and the tokens after it.  With tight = FALSE the sign    *)
(* takes a whole power expression:                                          *)
(*     expr := term (('+'|'-') term)*      term := unary (('*'|'/') unary)* *)
(*     unary := ('-'|'+')? power           power := atom ('^' unary)?       *)
(*     atom := NUMBER | CONSTANT | FUNC '(' expr ')' | '(' expr ')'         *)
(* With tight = TRUE the sign takes the atom alone, as a rank above ^ has   *)
(* it:                                                                      *)
(*     term := power (('*'|'/') power)*    power := unary ('^' power)?      *)
(*     unary := ('-'|'+')? atom                                             *)

NoReading == [ok |-> FALSE, node |-> None, rest |-> <<>>]
Reading(node, rest) == [ok |-> TRUE, node |-> node, rest |-> rest]

NextIs(s, type, values) ==
    /\ s # <<>>
    /\ Head(s)[1] = type
    /\ Head(s)[2] \in values

RECURSIVE GrammarExpr(_, _), GrammarExprRest(_, _, _), GrammarTerm(_, _),
          GrammarTermRest(_, _, _), GrammarUnary(_, _), GrammarPower(_, _),
          GrammarAtom(_, _)

\* '(' expr ')'
GrammarParenthesized(s, tight) ==
    IF ~NextIs(s, "PAREN", {"("}) THEN NoReading
    ELSE LET inner == GrammarExpr(Tail(s), tight) IN
         IF inner.ok /\ NextIs(inner.rest, "PAREN", {")"})
         THEN Reading(inner.node, Tail(inner.rest))
         ELSE NoReading

GrammarAtom(s, tight) ==
    IF s = <<>> THEN NoReading
    ELSE IF Head(s)[1] = "NUMBER"
    THEN Reading(create_number_node(Head(s)[2]), Tail(s))
    ELSE IF Head(s)[1] = "CONSTANT"
    THEN Reading(create_constant_node(Head(s)[2]), Tail(s))
    ELSE IF Head(s)[1] = "FUNCTION"
    THEN LET argument == GrammarParenthesized(Tail(s), tight) IN
         IF argument.ok
         THEN Reading(create_function_node(Head(s)[2], argument.node),
                      argument.rest)
         ELSE NoReading
    ELSE GrammarParenthesized(s, tight)

GrammarUnary(s, tight) ==
    IF NextIs(s, "OPERATOR", {"-", "+"})
    THEN LET operand == IF tight THEN GrammarAtom(Tail(s), tight)
                        ELSE GrammarPower(Tail(s), tight)
         IN  IF operand.ok
             THEN Reading(create_unary_node("u" \o Head(s)[2], operand.node),
                          operand.rest)
             ELSE NoReading
    ELSE IF tight THEN GrammarAtom(s, tight) ELSE GrammarPower(s, tight)

GrammarPower(s, tight) ==
    LET base == IF tight THEN GrammarUnary(s, tight) ELSE GrammarAtom(s, tight)
    IN  IF base.ok /\ NextIs(base.rest, "OPERATOR", {"^"})
        THEN LET exponent == IF tight THEN GrammarPower(Tail(base.rest), tight)
                             ELSE GrammarUnary(Tail(base.rest), tight)
             IN  IF exponent.ok
                 THEN Reading(create_operator_node("^", base.node,
                                                   exponent.node),
                              exponent.rest)
                 ELSE NoReading
        ELSE base

GrammarTermRest(left, s, tight) ==
    IF NextIs(s, "OPERATOR", {"*", "/"})
    THEN LET right == IF tight THEN GrammarPower(Tail(s), tight)
                      ELSE GrammarUnary(Tail(s), tight)
         IN  IF right.ok
             THEN GrammarTermRest(
                      create_operator_node(Head(s)[2], left, right.node),
                      right.rest, tight)
             ELSE NoReading
    ELSE Reading(left, s)

GrammarTerm(s, tight) ==
    LET first == IF tight THEN GrammarPower(s, tight)
                 ELSE GrammarUnary(s, tight)
    IN  IF first.ok THEN GrammarTermRest(first.node, first.rest, tight)
        ELSE NoReading

GrammarExprRest(left, s, tight) ==
    IF NextIs(s, "OPERATOR", {"+", "-"})
    THEN LET right == GrammarTerm(Tail(s), tight) IN
         IF right.ok
         THEN GrammarExprRest(
                  create_operator_node(Head(s)[2], left, right.node),
                  right.rest, tight)
         ELSE NoReading
    ELSE Reading(left, s)

GrammarExpr(s, tight) ==
    LET first == GrammarTerm(s, tight) IN
    IF first.ok THEN GrammarExprRest(first.node, first.rest, tight)
    ELSE NoReading

\* The whole token list is an expression of the grammar.
Derivable(s) ==
    LET reading == GrammarExpr(s, FALSE) IN reading.ok /\ reading.rest = <<>>

\* The tree of the derivation, the sign taking the power expression, and the
\* tree with the sign taking the atom.
DerivationTree(s) == GrammarExpr(s, FALSE).node
TightSignTree(s) == GrammarExpr(s, TRUE).node

\* build_syntax_tree has ended, with a node or with an exception.
BuildEnded == pc # "scan"

\* C12 as stated: on a token list that the grammar derives, build_syntax_tree
\* returns the tree of the derivation, in which a leading sign applies to the
\* whole power expression after it: - a ^ b is -(a ^ b).
C12_GrammarGrouping ==
    (BuildEnded /\ Derivable(tokens)) =>
        /\ Returned
        /\ tree = DerivationTree(tokens)

\* C12, amended: on a token list that the grammar derives, build_syntax_tree
\* returns the tree that the precedence table gives: a sign binds tighter than
\* every binary operator, ^ included, so - a ^ b is (-a) ^ b; the exponent of
\* ^ may itself be signed, a ^ - b is a ^ (-b).
C12_TableGrouping ==
    (BuildEnded /\ Derivable(tokens)) =>
        /\ Returned
        /\ tree = TightSignTree(tokens)
        /\ (tokens = <<<<"OPERATOR", "-">>, <<"NUMBER", "2">>,
                       <<"OPERATOR", "^">>, <<"NUMBER", "2">>>>) =>
               tree = create_operator_node("^",
                          create_unary_node("u-", create_number_node("2")),
                          create_number_node("2"))
        /\ (tokens = <<<<"NUMBER", "2">>, <<"OPERATOR", "^">>,
                       <<"OPERATOR", "-">>, <<"NUMBER", "2">>>>) =>
               tree = create_operator_node("^", create_number_node("2"),
                          create_unary_node("u-", create_number_node("2")))

\* - 2 ^ 2 has been built, as (-2) ^ 2, where the derivation has -(2 ^ 2).
C12_Witness ==
    /\ BuildEnded
    /\ tokens = <<<<"OPERATOR", "-">>, <<"NUMBER", "2">>,
                  <<"OPERATOR", "^">>, <<"NUMBER", "2">>>>
    /\ Derivable(tokens)
    /\ tree = TightSignTree(tokens)
    /\ tree # DerivationTree(tokens)

-----------------------------------------------------------------------------
(* Keywords in tokenize_expression (SpecLex).                               *)

Letters ==
    {"a", "b", "c", "d", "e", "f", "g", "h", "i", "j", "k", "l", "m", "n",
     "o", "p", "q", "r", "s", "t", "u", "v", "w", "x", "y", "z"}

KeywordWords == Range(FunctionWords) \cup Range(ConstantWords)

\* The keyword `word` is the token that tokenize_expression has just appended:
\* it is the last token and its text ends at position.
JustAppended(word) ==
    /\ tokens # <<>>
    /\ tokens[Len(tokens)][1] \in {"FUNCTION", "CONSTANT"}
    /\ tokens[Len(tokens)][2] = Join(word)
    /\ position >= Len(word)
    /\ SubSeq(expression, position - Len(word) + 1, position) = word

\* The text of `word` that ends at position has no letter before or after it.
WholeWord(word) ==
    /\ (position > Len(word)) => expression[position - Len(word)] \notin Letters
    /\ (position < Len(expression)) => expression[position + 1] \notin Letters

\* C13: a FUNCTION or CONSTANT token is the text of a whole word of the input:
\* on an input that tokenize_expression returns the tokens of, no keyword is
\* cut out of a longer run of letters, so 'sine' or 'ee' gives no token for
\* its leading keyword.
C13_KeywordsAreWholeWords ==
    tokenize_expression(expression).raised = None =>
        \A word \in KeywordWords : JustAppended(word) => WholeWord(word)

-----------------------------------------------------------------------------
(* The failures and the nodes of build_syntax_tree (Spec).                  *)

\* build_syntax_tree has raised (an exception of the evaluator leaves a tree).
BuildRaised == pc = "raised" /\ tree = None

\* C14: build_syntax_tree returns a node or fails with a parse error of its
\* own (unbalanced parentheses, wrong size of the output stack at the end): it
\* never pops from an empty output stack, so no other exception leaves it.
C14_OnlyParseErrors ==
    BuildRaised => raised \in {UnbalancedParentheses, TreeBuildError}

\* Node t and every node below it carry a symbol of the table that evaluates
\* the node, and the children that its kind has.
RECURSIVE SymbolsInTables(_)
SymbolsInTables(t) ==
    /\ t # None
    /\ CASE t.type = "NUMBER" -> TRUE
         [] t.type = "OPERATOR" ->
                /\ t.value \in DOMAIN create_operations_map
                /\ t.value \in {"+", "-", "*", "/", "^"}
                /\ SymbolsInTables(t.left)
                /\ SymbolsInTables(t.right)
         [] t.type = "UNARY" ->
                /\ t.value \in {"u-", "u+"}
                /\ SymbolsInTables(t.left)
         [] t.type = "FUNCTION" ->
                /\ t.value \in DOMAIN create_functions_map
                /\ SymbolsInTables(t.left)
         [] OTHER -> FALSE

\* C15: in every state of build_syntax_tree each node on the output stack,
\* and so each node of the tree it returns, carries a symbol of the table that
\* evaluates it: a binary node one of + - * / ^, a unary node u- or u+, a
\* function node a key of the function table; neither "(" nor a unary symbol
\* is the symbol of a binary node.
C15_NodeSymbolsInTables ==
    /\ \A i \in 1..Len(output_stack) : SymbolsInTables(output_stack[i])
    /\ Returned => SymbolsInTables(tree)

\* abs(-5) * 2 has been built: a binary node over a function node over a
\* unary node.
C15_Witness ==
    /\ Returned
    /\ tokens = TokensOf(test_expressions[12])
    /\ tree.type = "OPERATOR" /\ tree.value = "*"
    /\ tree.left.type = "FUNCTION" /\ tree.left.value = "abs"
    /\ tree.left.left.type = "UNARY" /\ tree.left.left.value = "u-"

\* The leaves of node t, from left to right.
RECURSIVE Leaves(_)
Leaves(t) ==
    IF t = None THEN <<>>
    ELSE IF t.type = "NUMBER" THEN <<t>>
    ELSE Leaves(t.left) \o Leaves(t.right)

\* The token value that a node symbol was made of: u- of -, u+ of +.
TokenValueOf(symbol) ==
    CASE symbol = "u-" -> "-"
      [] symbol = "u+" -> "+"
      [] OTHER -> symbol

\* The token values of the inner nodes of t.
RECURSIVE InnerNodes(_)
InnerNodes(t) ==
    IF t = None \/ t.type = "NUMBER" THEN <<>>
    ELSE <<TokenValueOf(t.value)>> \o InnerNodes(t.left) \o InnerNodes(t.right)

IsOperatorOrFunction(token) == token[1] \in {"OPERATOR", "FUNCTION"}

\* How many times x occurs in the sequence s.
Occurrences(s, x) == Cardinality({i \in 1..Len(s) : s[i] = x})

\* C16: the leaves of a tree that build_syntax_tree returns are, from left to
\* right, the NUMBER and CONSTANT tokens of the input in their order, and each
\* operator and function token of the input is one inner node of the tree: no
\* token is lost and none is used twice.
C16_TokensConserved ==
    Returned =>
        LET operands == SelectSeq(tokens, IsOperandToken)
            symbols == SelectSeq(tokens, IsOperatorOrFunction)
        IN  /\ Leaves(tree) = [i \in 1..Len(operands) |-> Leaf(operands[i])]
            /\ Len(InnerNodes(tree)) = Len(symbols)
            /\ \A i \in 1..Len(symbols) :
                  Occurrences(InnerNodes(tree), symbols[i][2]) =
                      Cardinality({j \in 1..Len(symbols) :
                                      symbols[j][2] = symbols[i][2]})

\* 2 - 3 * 5 ^ 2 has been built: four leaves and three inner nodes.
C16_Witness ==
    /\ Returned
    /\ tokens = TokensOf(interactive_expressions[4])
    /\ Len(Leaves(tree)) = 4
    /\ InnerNodes(tree) = <<"-", "*", "^">>
    /\ Leaves(tree)[1] = create_number_node("2")
    /\ Leaves(tree)[2] = create_number_node("3")

====
